---- MODULE Spec2Model ----
(***************************************************************************)
(* Arduino_AdvancedAnalog: the DMA buffer pool (src/src/DMABuffer.h) and   *)
(* the double-buffered DAC streaming driver (src/src/AdvancedDAC.cpp).     *)
(*                                                                         *)
(* One application thread calls the AdvancedDAC methods of a few driver    *)
(* objects; the DMA stream interrupt runs DAC_DMAConvCplt.  An interrupt   *)
(* handler runs to completion, so each handler is one atomic step; the     *)
(* only place the application thread can be interleaved with the interrupt *)
(* is the __WFI() loop of AdvancedDAC::dequeue, which has its own step.    *)
(*                                                                         *)
(* Buffers of a pool are numbered 1..n_buffers; a buffer's number stands   *)
(* for its address and for the address of its memory slice (data()).       *)
(*                                                                         *)
(* Environment: the application passes to write() and to release() only a  *)
(* buffer it got from dequeue() and has not handed back, and it drops its  *)
(* buffer references when their pool is deleted.                           *)
(***************************************************************************)
EXTENDS Integers, Sequences, FiniteSets, TLC

\* ------------------------------------------------------------ bounds
\* Largest n_buffers passed to begin().
MaxBuffers == 4
\* Most buffers the application holds at once between dequeue() and write().
MaxHeld == 1

\* --------------------------------------------------------- constants
\* The null pointer.
nullptr == 0
\* The static sentinel buffer of AdvancedDAC::dequeue (no pool, no memory).
NULLBUF == -1
\* A reference produced by undefined behaviour: it designates no buffer.
WILD == -2
\* No value (a void return, or no call yet).
NoRet == -3

\* The HAL's channel identifiers.
DAC_CHANNEL_1 == 0
DAC_CHANNEL_2 == 16
\* The channel descriptors: 1 stands for &dac_descr_all[0], 2 for
\* &dac_descr_all[1]; dac_descr_channel is their channel field.
Descrs == {1, 2}
dac_descr_channel == <<DAC_CHANNEL_1, DAC_CHANNEL_2>>

DAC_ALIGN_12B_R == 0
DAC_ALIGN_8B_R == 8
\* DAC_RES_LUT, indexed from 0 in the source.
DAC_RES_LUT == <<DAC_ALIGN_8B_R, DAC_ALIGN_12B_R, DAC_ALIGN_12B_R>>
\* DAC_CHAN_LUT, indexed from 0 in the source.
DAC_CHAN_LUT == <<DAC_CHANNEL_1, DAC_CHANNEL_2>>
\* The resolution arguments the application tries: the three of the table and
\* one past its end.
Resolutions == 0..Len(DAC_RES_LUT)

\* The driver objects of the application, and STM_PIN_CHANNEL of the pin each
\* was constructed with: both drive the pin of DAC channel 1.
Instances == {1, 2}
PinChannel(i) == 1

\* The two in-flight slots, descr->dmabuf[0] and descr->dmabuf[1].
Slots == {0, 1}

VARIABLES
    alive,      \* alive[i]: object i is constructed and not destroyed
    descr,      \* descr[i]: AdvancedDAC::descr, nullptr or a descriptor
    waiting,    \* the object whose dequeue() is in its __WFI() loop, or 0
    last,       \* the last step taken: [op, inst, arg, was, ret]; was is
                \* the descr of the object before a begin()
    fault,      \* undefined behaviour ended in a hard fault
    pool,       \* pool[c]: the pool field of descriptor c is not nullptr
    nPools,     \* DMABufferPool objects on the heap (new minus delete)
    buffers,    \* buffers[c]: the buffers of the pool (none if allocation failed)
    freeq,      \* freeq[c]: DMABufferPool::freeq
    readyq,     \* readyq[c]: DMABufferPool::readyq
    held,       \* held[c]: buffers the application got from dequeue() and holds
    dmabuf,     \* dmabuf[c][s]: descr->dmabuf[s]
    resolution, \* resolution[c]: descr->resolution
    tim,        \* tim[c]: the trigger timer runs
    dmaEn,      \* dmaEn[c]: the DAC DMA transfer runs
    mar,        \* mar[c][s]: the DMA stream's memory address register s
    ct,         \* ct[c]: the DMA stream's current-target bit
    upool,      \* a DMABufferPool<Sample, A> and its DMABuffers, used on its own
    ulast       \* the last call made on upool: [op, buf, was, ret]

\* The variables of the driver, and those of the pool used on its own.
drvVars ==
    <<alive, descr, waiting, last, fault, pool, nPools, buffers, freeq, readyq,
      held, dmabuf, resolution, tim, dmaEn, mar, ct>>
unitVars == <<upool, ulast>>
vars == <<drvVars, unitVars>>

\* ------------------------------------------------------------ LLQueue
\* Queue.h is not among the sources: a FIFO, whose pop of an empty queue gives
\* nullptr.
LLQ_empty(q) == Len(q) = 0
LLQ_push(q, b) == Append(q, b)
LLQ_front(q) == IF Len(q) = 0 THEN nullptr ELSE Head(q)
LLQ_rest(q) == IF Len(q) = 0 THEN q ELSE Tail(q)

\* ------------------------------------------------------ DMABufferPool
\* A C++ bool used in an integer comparison is promoted to 0 or 1.
BoolToInt(b) == IF b THEN 1 ELSE 0

\* DMABufferPool::writable, of the free queue fq.
writable(fq) == ~LLQ_empty(fq)

\* DMABufferPool::readable, of the ready queue rq: declared bool.
readable(rq) == ~LLQ_empty(rq)

\* DMABufferPool::allocate: the buffer returned, and the free queue left.
allocate_ret(fq) == LLQ_front(fq)
\* (mutant: allocate returns the head of the free queue without removing it)
allocate_q_peeks(fq) == fq
allocate_q(fq) == LLQ_rest(fq)

\* DMABufferPool::release (through DMABuffer::release): the free queue after.
release(fq, b) == LLQ_push(fq, b)

\* DMABufferPool::enqueue: the ready queue after.
enqueue(rq, b) == LLQ_push(rq, b)

\* (mutant: dequeue pops the ready queue and returns no buffer)
Pool_dequeue_ret_null(rq) == nullptr

\* DMABufferPool::dequeue: the buffer returned, and the ready queue left.
Pool_dequeue_ret(rq) == LLQ_front(rq)
Pool_dequeue_q(rq) == LLQ_rest(rq)

\* The DMABufferPool constructor: the buffers it creates and pushes on the free
\* queue, given whether both allocations succeed.
PoolBuffers(n, ok) == IF ok THEN 1..n ELSE {}
RECURSIVE PoolFreeq(_, _)
PoolFreeq(n, ok) ==
    IF ~ok \/ n = 0 THEN <<>> ELSE LLQ_push(PoolFreeq(n - 1, ok), n)

\* --------------------------------------------------------- the driver
\* dac_descr_get.
dac_descr_get(channel) ==
    IF channel = DAC_CHANNEL_1 THEN 1
    ELSE IF channel = DAC_CHANNEL_2 THEN 2
    ELSE nullptr

NoSlots == [s \in Slots |-> nullptr]

\* No DMABufferPool has been constructed for use on its own, and no call made
\* on one.  In a call record, buf is the buffer the call is made on, was its
\* flags word before the call, ret the buffer returned.
NoPool == [built |-> FALSE]
NoCall == [op |-> "none", buf |-> nullptr, was |-> {}, ret |-> NoRet]

Init ==
    /\ alive = [i \in Instances |-> TRUE]
    /\ descr = [i \in Instances |-> nullptr]
    /\ waiting = 0
    /\ last = [op |-> "none", inst |-> 0, arg |-> 0, was |-> nullptr, ret |-> NoRet]
    /\ fault = FALSE
    /\ pool = [c \in Descrs |-> FALSE]
    /\ nPools = 0
    /\ buffers = [c \in Descrs |-> {}]
    /\ freeq = [c \in Descrs |-> <<>>]
    /\ readyq = [c \in Descrs |-> <<>>]
    /\ held = [c \in Descrs |-> {}]
    /\ dmabuf = [c \in Descrs |-> NoSlots]
    /\ resolution = [c \in Descrs |-> DAC_ALIGN_12B_R]
    /\ tim = [c \in Descrs |-> FALSE]
    /\ dmaEn = [c \in Descrs |-> FALSE]
    /\ mar = [c \in Descrs |-> NoSlots]
    /\ ct = [c \in Descrs |-> 0]
    /\ upool = NoPool
    /\ ulast = NoCall

\* The application thread can make a call: it is not inside dequeue(), and the
\* program has not faulted.
AppRuns == waiting = 0 /\ ~fault

\* (mutant: begin() does not test whether the channel has a pool)
ChannelBusy_unchecked(c) == c = nullptr

\* The test of line 130, of the descriptor c that dac_descr_get returned.
ChannelBusy(c) == c = nullptr \/ pool[c]

\* AdvancedDAC::begin.  allocOk: both allocations of the pool constructor
\* succeed.  operator new does not return nullptr, so line 136 never holds.
begin(i, res, n_buffers, allocOk) ==
    /\ AppRuns /\ alive[i]
    /\ IF res >= Len(DAC_RES_LUT)
       THEN /\ last' = [op |-> "begin", inst |-> i, arg |-> res, was |-> descr[i], ret |-> 0]
            /\ UNCHANGED <<descr, pool, nPools, buffers, freeq, readyq, resolution>>
       ELSE LET c == dac_descr_get(DAC_CHAN_LUT[PinChannel(i)]) IN
            /\ descr' = [descr EXCEPT ![i] = c]
            /\ IF ChannelBusy(c)
               THEN /\ last' = [op |-> "begin", inst |-> i, arg |-> res,
                                was |-> descr[i], ret |-> 0]
                    /\ UNCHANGED <<pool, nPools, buffers, freeq, readyq, resolution>>
               ELSE /\ pool' = [pool EXCEPT ![c] = TRUE]
                    /\ nPools' = nPools + 1
                    /\ buffers' = [buffers EXCEPT ![c] = PoolBuffers(n_buffers, allocOk)]
                    /\ freeq' = [freeq EXCEPT ![c] = PoolFreeq(n_buffers, allocOk)]
                    /\ readyq' = [readyq EXCEPT ![c] = <<>>]
                    /\ resolution' = [resolution EXCEPT ![c] = DAC_RES_LUT[res + 1]]
                    /\ last' = [op |-> "begin", inst |-> i, arg |-> res,
                                was |-> descr[i], ret |-> 1]
    /\ UNCHANGED <<alive, waiting, fault, held, dmabuf, tim, dmaEn, mar, ct>>
    /\ UNCHANGED unitVars

\* (mutant: the transfer starts as soon as one buffer is ready)
StartCond_one(d0, rq) == d0 = nullptr /\ BoolToInt(readable(rq)) > 0

\* The start condition of AdvancedDAC::write (line 100), of the first in-flight
\* slot d0 and the ready queue rq after the enqueue: readable() is a bool, and
\* it is that bool which is compared with 2.
StartCond(d0, rq) == d0 = nullptr /\ BoolToInt(readable(rq)) > 2

\* (mutant: the loop of dac_descr_deinit stops after the first slot)
InFlightSeq_first(c) == SelectSeq(<<dmabuf[c][0]>>, LAMBDA b : b # nullptr)

\* The non-null entries of descr->dmabuf, in the order of the loop of
\* dac_descr_deinit.
InFlightSeq(c) == SelectSeq(<<dmabuf[c][0], dmabuf[c][1]>>, LAMBDA b : b # nullptr)
InFlight(c) == {dmabuf[c][s] : s \in Slots} \ {nullptr}

\* HAL_DAC_Stop_DMA (the HAL is not among the sources): the stream is disabled.
\* Nothing reads the address registers or the current-target bit of a disabled
\* stream, and enabling it sets them anew: they are kept at their reset values.
HAL_DAC_Stop_DMA(c) ==
    /\ dmaEn' = [dmaEn EXCEPT ![c] = FALSE]
    /\ mar' = [mar EXCEPT ![c] = NoSlots]
    /\ ct' = [ct EXCEPT ![c] = 0]

RECURSIVE ReleaseAll(_, _)
ReleaseAll(fq, bs) ==
    IF bs = <<>> THEN fq ELSE ReleaseAll(release(fq, Head(bs)), Tail(bs))

\* dac_descr_deinit(descr, dealloc_pool).  With dealloc_pool the pool is deleted
\* before the loop releases the in-flight buffers: each release then reads and
\* writes freed memory, which goes unnoticed or faults.  It sets tim, dmaEn,
\* mar, ct, pool, nPools, buffers, freeq, readyq, held, dmabuf and fault.
dac_descr_deinit(c, dealloc_pool) ==
    IF c = nullptr
    THEN UNCHANGED <<tim, dmaEn, mar, ct, pool, nPools, buffers, freeq, readyq, held,
                     dmabuf, fault>>
    ELSE /\ tim' = [tim EXCEPT ![c] = FALSE]
         /\ HAL_DAC_Stop_DMA(c)
         /\ IF dealloc_pool
            THEN /\ pool' = [pool EXCEPT ![c] = FALSE]
                 /\ nPools' = nPools - BoolToInt(pool[c])
                 /\ buffers' = [buffers EXCEPT ![c] = {}]
                 /\ freeq' = [freeq EXCEPT ![c] = <<>>]
                 /\ readyq' = [readyq EXCEPT ![c] = <<>>]
                 /\ held' = [held EXCEPT ![c] = {}]
            ELSE /\ freeq' = [freeq EXCEPT ![c] = ReleaseAll(freeq[c], InFlightSeq(c))]
                 /\ UNCHANGED <<pool, nPools, buffers, readyq, held>>
         /\ dmabuf' = [dmabuf EXCEPT ![c] = NoSlots]
         /\ \E f \in (IF InFlightSeq(c) # <<>> /\ (dealloc_pool \/ ~pool[c])
                      THEN BOOLEAN ELSE {FALSE}) : fault' = f

\* AdvancedDAC::available, where descr->pool is not nullptr.
available(i) == descr[i] # nullptr /\ writable(freeq[descr[i]])

\* What descr->pool->writable() through a null descr->pool can lead dequeue()
\* to: it returns a reference to no buffer, it stays in its loop, or it faults.
NullPoolOutcomes == {"wild", "wait", "fault"}

\* The loop and the return of AdvancedDAC::dequeue (lines 87-90), descr not
\* nullptr.  It sets waiting, last, fault, freeq and held.
dequeue_loop(i) ==
    LET c == descr[i] IN
    IF pool[c]
    THEN /\ fault' = fault
         /\ IF available(i)
            THEN /\ waiting' = 0
                 /\ last' = [op |-> "dequeue", inst |-> i, arg |-> 0,
                             was |-> nullptr, ret |-> allocate_ret(freeq[c])]
                 /\ freeq' = [freeq EXCEPT ![c] = allocate_q(freeq[c])]
                 /\ held' = [held EXCEPT ![c] = @ \cup {allocate_ret(freeq[c])}]
            ELSE /\ waiting' = i
                 /\ last' = [op |-> "wfi", inst |-> i, arg |-> 0,
                             was |-> nullptr, ret |-> NoRet]
                 /\ UNCHANGED <<freeq, held>>
    ELSE /\ UNCHANGED <<freeq, held>>
         /\ \E out \in NullPoolOutcomes :
               /\ waiting' = IF out = "wait" THEN i ELSE 0
               /\ fault' = (out = "fault")
               /\ last' = IF out = "wild"
                          THEN [op |-> "dequeue", inst |-> i, arg |-> 0,
                                was |-> nullptr, ret |-> WILD]
                          ELSE IF out = "wait"
                          THEN [op |-> "wfi", inst |-> i, arg |-> 0,
                                was |-> nullptr, ret |-> NoRet]
                          ELSE [op |-> "fault", inst |-> i, arg |-> 0,
                                was |-> nullptr, ret |-> NoRet]

\* AdvancedDAC::dequeue is called.
dequeue(i) ==
    /\ AppRuns /\ alive[i]
    /\ descr[i] # nullptr => Cardinality(held[descr[i]]) < MaxHeld
    /\ IF descr[i] = nullptr
       THEN /\ last' = [op |-> "dequeue", inst |-> i, arg |-> 0,
                        was |-> nullptr, ret |-> NULLBUF]
            /\ UNCHANGED <<waiting, fault, freeq, held>>
       ELSE dequeue_loop(i)
    /\ UNCHANGED <<alive, descr, pool, nPools, buffers, readyq, dmabuf, resolution,
                   tim, dmaEn, mar, ct>>
    /\ UNCHANGED unitVars

\* __WFI() returns in the loop of dequeue(), and the loop tests available() again.
dequeue_wfi(i) ==
    /\ waiting = i /\ ~fault
    /\ dequeue_loop(i)
    /\ UNCHANGED <<alive, descr, pool, nPools, buffers, readyq, dmabuf, resolution,
                   tim, dmaEn, mar, ct>>
    /\ UNCHANGED unitVars

\* AdvancedDAC::write(dmabuf), of a buffer b the application holds.
write(i, b) ==
    /\ AppRuns /\ alive[i]
    /\ descr[i] # nullptr
    /\ b \in held[descr[i]]
    /\ LET c == descr[i]
           rq1 == enqueue(readyq[c], b)
           d0 == Pool_dequeue_ret(rq1)
           rq2 == Pool_dequeue_q(rq1)
           d1 == Pool_dequeue_ret(rq2)
           rq3 == Pool_dequeue_q(rq2)
       IN  /\ held' = [held EXCEPT ![c] = @ \ {b}]
           /\ IF StartCond(dmabuf[c][0], rq1)
              THEN /\ dmabuf' = [dmabuf EXCEPT ![c] = [s \in Slots |-> IF s = 0 THEN d0 ELSE d1]]
                   /\ readyq' = [readyq EXCEPT ![c] = rq3]
                   /\ dmaEn' = [dmaEn EXCEPT ![c] = TRUE]
                   /\ mar' = [mar EXCEPT ![c] = [s \in Slots |-> IF s = 0 THEN d0 ELSE d1]]
                   /\ ct' = [ct EXCEPT ![c] = 0]
                   /\ tim' = [tim EXCEPT ![c] = TRUE]
              ELSE /\ readyq' = [readyq EXCEPT ![c] = rq1]
                   /\ UNCHANGED <<dmabuf, dmaEn, mar, ct, tim>>
    /\ last' = [op |-> "write", inst |-> i, arg |-> 0, was |-> nullptr, ret |-> NoRet]
    /\ UNCHANGED <<alive, descr, waiting, fault, pool, nPools, buffers, freeq, resolution>>
    /\ UNCHANGED unitVars

\* DMABuffer::release, called by the application on a buffer b it holds.
DMABuffer_release(c, b) ==
    /\ AppRuns
    /\ b \in held[c]
    /\ pool[c]
    /\ freeq' = [freeq EXCEPT ![c] = release(freeq[c], b)]
    /\ held' = [held EXCEPT ![c] = @ \ {b}]
    /\ last' = [op |-> "release", inst |-> 0, arg |-> 0, was |-> nullptr, ret |-> NoRet]
    /\ UNCHANGED <<alive, descr, waiting, fault, pool, nPools, buffers, readyq, dmabuf,
                   resolution, tim, dmaEn, mar, ct>>
    /\ UNCHANGED unitVars

\* (mutant: stop() deletes the pool, as the destructor does)
StopDealloc_true == TRUE

\* The dealloc_pool argument AdvancedDAC::stop passes (line 161).
StopDealloc == FALSE

\* AdvancedDAC::stop.
stop(i) ==
    /\ AppRuns /\ alive[i]
    /\ dac_descr_deinit(descr[i], StopDealloc)
    /\ last' = [op |-> "stop", inst |-> i, arg |-> 0, was |-> nullptr, ret |-> 1]
    /\ UNCHANGED <<alive, descr, waiting, resolution>>
    /\ UNCHANGED unitVars

\* AdvancedDAC::~AdvancedDAC.
Destroy(i) ==
    /\ AppRuns /\ alive[i]
    /\ dac_descr_deinit(descr[i], TRUE)
    /\ alive' = [alive EXCEPT ![i] = FALSE]
    /\ descr' = [descr EXCEPT ![i] = nullptr]
    /\ last' = [op |-> "destroy", inst |-> i, arg |-> 0, was |-> nullptr, ret |-> NoRet]
    /\ UNCHANGED <<waiting, resolution>>
    /\ UNCHANGED unitVars

\* The AdvancedDAC constructor (AdvancedDAC.h is not among the sources): a new
\* object, whose descr is nullptr, in the place of a destroyed one.
Construct(i) ==
    /\ AppRuns /\ ~alive[i]
    /\ alive' = [alive EXCEPT ![i] = TRUE]
    /\ descr' = [descr EXCEPT ![i] = nullptr]
    /\ last' = [op |-> "construct", inst |-> i, arg |-> 0, was |-> nullptr, ret |-> NoRet]
    /\ UNCHANGED <<waiting, fault, pool, nPools, buffers, freeq, readyq, held, dmabuf,
                   resolution, tim, dmaEn, mar, ct>>
    /\ UNCHANGED unitVars

\* hal_dma_get_ct (HALConfig is not among the sources): the current-target bit.
hal_dma_get_ct(ctbit) == ctbit

\* (mutant: the current-target bit is not inverted)
CpltSlot_current(ctbit) == hal_dma_get_ct(ctbit)

\* The slot DAC_DMAConvCplt recycles (line 178): the one the stream is not
\* reading.
CpltSlot(ctbit) == 1 - hal_dma_get_ct(ctbit)

\* hal_dma_update_memory (HALConfig is not among the sources): the address
\* register of the target the stream is not reading is set to addr.
hal_dma_update_memory(m, ctbit, addr) == [m EXCEPT ![1 - ctbit] = addr]

\* (mutant: the underrun branch deletes the pool)
CpltDealloc_true == TRUE

\* The dealloc_pool argument DAC_DMAConvCplt passes on underrun (line 183).
CpltDealloc == FALSE

\* DAC_DMAConvCplt(dma, channel), with the stream's current-target bit ctbit.
\* It sets the pool, queue, dmabuf, tim, dmaEn, fault, mar and ct variables; ct
\* becomes ctbit, the target the stream switched to when it finished a buffer.
DAC_DMAConvCplt(channel, ctbit) ==
    LET c == dac_descr_get(channel) IN
    IF readable(readyq[c])
    THEN LET idx == CpltSlot(ctbit)
             nxt == Pool_dequeue_ret(readyq[c])
         IN  /\ freeq' = [freeq EXCEPT ![c] = release(freeq[c], dmabuf[c][idx])]
             /\ readyq' = [readyq EXCEPT ![c] = Pool_dequeue_q(readyq[c])]
             /\ dmabuf' = [dmabuf EXCEPT ![c][idx] = nxt]
             /\ mar' = [mar EXCEPT ![c] = hal_dma_update_memory(mar[c], ctbit, nxt)]
             /\ ct' = [ct EXCEPT ![c] = ctbit]
             /\ UNCHANGED <<tim, dmaEn, pool, nPools, buffers, held, fault>>
    ELSE dac_descr_deinit(c, CpltDealloc)

\* DMA1_Stream4_IRQHandler / DMA1_Stream5_IRQHandler: HAL_DMA_IRQHandler calls
\* the conversion-complete callback when the running transfer has finished a
\* buffer (the stream has then switched its current target), and returns
\* otherwise.
DMA_Stream_IRQHandler(c) ==
    /\ ~fault
    /\ IF dmaEn[c]
       THEN /\ DAC_DMAConvCplt(dac_descr_channel[c], 1 - ct[c])
            /\ last' = [op |-> "cplt", inst |-> 0, arg |-> c, was |-> nullptr, ret |-> NoRet]
            /\ UNCHANGED <<alive, descr, waiting, resolution>>
            /\ UNCHANGED unitVars
       ELSE UNCHANGED vars

\* The n_buffers arguments and allocation outcomes that a begin(i, res) goes on
\* to use: all of them when it constructs a pool, one (it reads neither) when
\* it returns before.
BeginInputs(i, res) ==
    IF res >= Len(DAC_RES_LUT) \/ ChannelBusy(dac_descr_get(DAC_CHAN_LUT[PinChannel(i)]))
    THEN {<<1, TRUE>>}
    ELSE (1..MaxBuffers) \X BOOLEAN

Next ==
    \/ \E i \in Instances, res \in Resolutions :
          \E in \in BeginInputs(i, res) : begin(i, res, in[1], in[2])
    \/ \E i \in Instances : dequeue(i)
    \/ \E i \in Instances : dequeue_wfi(i)
    \/ \E i \in Instances, b \in 1..MaxBuffers : write(i, b)
    \/ \E c \in Descrs, b \in 1..MaxBuffers : DMABuffer_release(c, b)
    \/ \E i \in Instances : stop(i)
    \/ \E i \in Instances : Destroy(i)
    \/ \E i \in Instances : Construct(i)
    \/ \E c \in Descrs : DMA_Stream_IRQHandler(c)

Spec == Init /\ [][Next]_vars

\* The state the start branch of AdvancedDAC::write (lines 101-112) leaves when
\* it runs in the third write() after a begin() with n buffers, object 1 having
\* taken and submitted buffers 1, 2 and 3 in turn: 1 and 2 in flight, 3 ready,
\* the transfer and the timer running.  StartCond never holds (see
\* C2_StartsWhenMoreThanTwoReady), so no behaviour of Spec reaches a state with
\* a transfer running; SpecStreaming is the program from this state on, and
\* what is checked under it is what the handlers do once a transfer runs.
InitStreaming ==
    \E n \in 3..MaxBuffers :
        LET d1 == dac_descr_get(DAC_CHANNEL_1)
            both == [s \in Slots |-> s + 1]
        IN
        /\ alive = [i \in Instances |-> TRUE]
        /\ descr = [i \in Instances |-> IF i = 1 THEN d1 ELSE nullptr]
        /\ waiting = 0
        /\ last = [op |-> "write", inst |-> 1, arg |-> 0, was |-> nullptr, ret |-> NoRet]
        /\ fault = FALSE
        /\ pool = [c \in Descrs |-> c = d1]
        /\ nPools = 1
        /\ buffers = [c \in Descrs |-> IF c = d1 THEN 1..n ELSE {}]
        /\ freeq = [c \in Descrs |->
                      IF c = d1 THEN SubSeq(PoolFreeq(n, TRUE), 4, n) ELSE <<>>]
        /\ readyq = [c \in Descrs |-> IF c = d1 THEN <<3>> ELSE <<>>]
        /\ held = [c \in Descrs |-> {}]
        /\ dmabuf = [c \in Descrs |-> IF c = d1 THEN both ELSE NoSlots]
        /\ resolution = [c \in Descrs |-> DAC_ALIGN_12B_R]
        /\ tim = [c \in Descrs |-> c = d1]
        /\ dmaEn = [c \in Descrs |-> c = d1]
        /\ mar = [c \in Descrs |-> IF c = d1 THEN both ELSE NoSlots]
        /\ ct = [c \in Descrs |-> 0]
        /\ upool = NoPool
        /\ ulast = NoCall

SpecStreaming == InitStreaming /\ [][Next]_vars

\* The program under the scheduling the hardware gives: a completion interrupt
\* that is pending is delivered, and the loop of dequeue() goes on when
\* __WFI() returns.
SpecFair ==
    /\ Init /\ [][Next]_vars
    /\ WF_vars(\E c \in Descrs : DMA_Stream_IRQHandler(c))
    /\ WF_vars(\E i \in Instances : dequeue_wfi(i))

\* ------------------------------------------- DMABuffer.h on its own
\* The classes of DMABuffer.h used by any client: a pool is constructed with
\* some template alignment and arguments, and its methods and those of its
\* buffers are called in any order on buffers the client got from the pool.
\* Addresses and sizes stay far below 2^32: no size_t arithmetic wraps.

\* Largest n_buffers of a pool used on its own.
MaxPoolBuffers == 2
\* Largest template alignment A tried, besides the cache line size.
MaxAlign == 6
\* __SCB_DCACHE_LINE_SIZE, the default alignment, which the driver's pools use.
SCB_DCACHE_LINE_SIZE == 32
Alignments == (1..MaxAlign) \cup {SCB_DCACHE_LINE_SIZE}
\* sizeof(void *) and sizeof(Sample) on the target.
sizeof_ptr == 4
sizeof_Sample == 2
\* The n_samples and n_channels arguments tried.
SampleCounts == {0, 1, 17}
ChannelCounts == {1, 2}
\* What ::malloc returns: nullptr, or the address of a block.
MallocResults == {nullptr, 8}

\* The flag bits, as sets of bit positions of the uint32_t flags word.
DMA_BUFFER_DISCONT == {0}
DMA_BUFFER_INTRLVD == {1}
\* The default argument of clrflags, 0xFFFFFFFF.
AllFlags == 0..31
FlagArgs == {DMA_BUFFER_DISCONT, DMA_BUFFER_INTRLVD}

\* x & ~m, of unsigned integers.
RECURSIVE AndNot(_, _)
AndNot(x, m) ==
    IF x = 0 THEN 0
    ELSE 2 * AndNot(x \div 2, m \div 2)
         + (IF x % 2 = 1 /\ m % 2 = 0 THEN 1 ELSE 0)

\* The alignment step of AlignedAlloc<A>::malloc (line 21).
AlignedAlloc_align(A, addr) == AndNot(addr, A - 1)

\* AlignedAlloc<A>::malloc(size), stashed being what ::malloc returns when it
\* is called.
AlignedAlloc_malloc(A, size, stashed) ==
    LET offset == A - 1 + sizeof_ptr IN
    IF A % 2 # 0 \/ stashed = nullptr
    THEN nullptr
    ELSE AlignedAlloc_align(A, stashed + offset)

\* AlignedAlloc<A>::round(size).
AlignedAlloc_round(A, size) == AndNot(size + (A - 1), A - 1)

\* DMABuffer::setflags and DMABuffer::clrflags: the flags word after.
setflags(flags, f) == flags \cup f
\* (mutant: clrflags clears nothing)
clrflags_keep(flags, f) == flags
clrflags(flags, f) == flags \ f

\* (mutant: every buffer is bound to the start of the block)
SliceAddr_base(mem, i, bufsize) == mem

\* &pool.get()[i * bufsize] (line 146), mem being pool.get().
SliceAddr(mem, i, bufsize) == mem + i * bufsize

\* The DMABufferPool constructor: the pool and its buffers after it.  newOk:
\* new DMABuffer<T>[n_buffers] gives an array.  Buffer b is buffers[b - 1].
DMABufferPool(A, n_samples, n_channels, n_buffers, newOk, stashed) ==
    LET bufsize == AlignedAlloc_round(A, n_samples * n_channels * sizeof_Sample)
        mem == AlignedAlloc_malloc(A, n_buffers * bufsize, stashed)
        ok == newOk /\ mem # nullptr
    IN  [built |-> TRUE, A |-> A, n_samples |-> n_samples, n_channels |-> n_channels,
         n_buffers |-> n_buffers, newOk |-> newOk, stashed |-> stashed,
         pool |-> mem,
         buffers |-> PoolBuffers(n_buffers, ok),
         ptr |-> [b \in PoolBuffers(n_buffers, ok) |-> SliceAddr(mem, b - 1, bufsize)],
         flags |-> [b \in PoolBuffers(n_buffers, ok) |-> {}],
         freeq |-> PoolFreeq(n_buffers, ok),
         readyq |-> <<>>,
         out |-> {}]

\* new DMABufferPool<Sample, A>(n_samples, n_channels, n_buffers).
Pool_new(A, n_samples, n_channels, n_buffers, newOk, stashed) ==
    /\ ~upool.built
    /\ upool' = DMABufferPool(A, n_samples, n_channels, n_buffers, newOk, stashed)
    /\ ulast' = [NoCall EXCEPT !.op = "new"]
    /\ UNCHANGED drvVars

\* DMABufferPool::allocate is called: the client holds the buffer returned.
Pool_allocate ==
    /\ upool.built
    /\ Cardinality(upool.out) < MaxHeld
    /\ LET b == allocate_ret(upool.freeq) IN
        /\ upool' = [upool EXCEPT !.freeq = allocate_q(@),
                                  !.out = @ \cup ({b} \ {nullptr})]
        /\ ulast' = [NoCall EXCEPT !.op = "allocate", !.ret = b]
    /\ UNCHANGED drvVars

\* DMABuffer::setflags(f) is called on a buffer b the client holds.
Buffer_setflags(b, f) ==
    /\ upool.built /\ b \in upool.out
    /\ upool' = [upool EXCEPT !.flags[b] = setflags(@, f)]
    /\ ulast' = [NoCall EXCEPT !.op = "setflags", !.buf = b, !.was = upool.flags[b]]
    /\ UNCHANGED drvVars

\* DMABuffer::release is called on a buffer b the client holds: its pool and
\* ptr are not null, and DMABufferPool::release runs.
Pool_release(b) ==
    /\ upool.built /\ b \in upool.out
    /\ upool' = [upool EXCEPT !.flags[b] = clrflags(@, AllFlags),
                              !.freeq = release(@, b),
                              !.out = @ \ {b}]
    /\ ulast' = [NoCall EXCEPT !.op = "release", !.buf = b, !.was = upool.flags[b]]
    /\ UNCHANGED drvVars

\* DMABufferPool::enqueue is called on a buffer b the client holds.
Pool_enqueue(b) ==
    /\ upool.built /\ b \in upool.out
    /\ upool' = [upool EXCEPT !.readyq = enqueue(@, b), !.out = @ \ {b}]
    /\ ulast' = [NoCall EXCEPT !.op = "enqueue", !.buf = b, !.was = upool.flags[b]]
    /\ UNCHANGED drvVars

\* DMABufferPool::dequeue is called: the client holds the buffer returned.
Pool_dequeue ==
    /\ upool.built
    /\ Cardinality(upool.out) < MaxHeld
    /\ LET b == Pool_dequeue_ret(upool.readyq) IN
        /\ upool' = [upool EXCEPT !.readyq = Pool_dequeue_q(@),
                                  !.out = @ \cup ({b} \ {nullptr})]
        /\ ulast' = [NoCall EXCEPT !.op = "dequeue", !.ret = b]
    /\ UNCHANGED drvVars

NextPool ==
    \/ \E A \in Alignments, n_samples \in SampleCounts, n_channels \in ChannelCounts,
          n_buffers \in 1..MaxPoolBuffers, newOk \in BOOLEAN, stashed \in MallocResults :
          Pool_new(A, n_samples, n_channels, n_buffers, newOk, stashed)
    \/ Pool_allocate
    \/ \E b \in 1..MaxPoolBuffers, f \in FlagArgs : Buffer_setflags(b, f)
    \/ \E b \in 1..MaxPoolBuffers : Pool_release(b)
    \/ \E b \in 1..MaxPoolBuffers : Pool_enqueue(b)
    \/ Pool_dequeue

SpecPool == Init /\ [][NextPool]_vars

\* ------------------------------------------------------------ typing
TypeOK ==
    /\ alive \in [Instances -> BOOLEAN]
    /\ descr \in [Instances -> {nullptr} \cup Descrs]
    /\ waiting \in {0} \cup Instances
    /\ fault \in BOOLEAN
    /\ pool \in [Descrs -> BOOLEAN]
    /\ nPools \in 0..Cardinality(Descrs)
    /\ \A c \in Descrs :
          /\ buffers[c] \subseteq 1..MaxBuffers
          /\ \A k \in 1..Len(freeq[c]) : freeq[c][k] \in buffers[c]
          /\ \A k \in 1..Len(readyq[c]) : readyq[c][k] \in buffers[c]
          /\ held[c] \subseteq buffers[c]
          /\ \A s \in Slots : dmabuf[c][s] \in {nullptr} \cup buffers[c]
          /\ resolution[c] \in {DAC_ALIGN_8B_R, DAC_ALIGN_12B_R}
          /\ ct[c] \in Slots
    /\ upool.built \in BOOLEAN
    /\ upool.built =>
          /\ upool.buffers \subseteq 1..MaxPoolBuffers
          /\ upool.out \subseteq upool.buffers
          /\ \A b \in upool.buffers : upool.flags[b] \subseteq AllFlags

\* No behaviour of Spec starts a transfer.
NeverStreams == \A c \in Descrs : ~dmaEn[c] /\ ~tim[c] /\ dmabuf[c] = NoSlots

\* ------------------------------------------------------------ claims
\* The buffers a queue holds, and how often it holds b.
Range(q) == {q[k] : k \in 1..Len(q)}
Occurs(q, b) == Cardinality({k \in 1..Len(q) : q[k] = b})
\* The in-flight slots that are occupied.
Occupied(c) == {s \in Slots : dmabuf[c][s] # nullptr}
InFlightSet(c) == {dmabuf[c][s] : s \in Occupied(c)}

\* C1, as stated: for a pool of N buffers, between any two operations
\* |free| + |ready| + |in-flight| = N, with the three sets pairwise disjoint and
\* no buffer outside all three.
C1_PartitionOfThree ==
    \A c \in Descrs :
        pool[c] =>
            /\ Len(freeq[c]) + Len(readyq[c]) + Cardinality(Occupied(c))
                  = Cardinality(buffers[c])
            /\ Range(freeq[c]) \cup Range(readyq[c]) \cup InFlightSet(c) = buffers[c]

\* C1, amended: every buffer of a pool is in exactly one of the free queue, the
\* ready queue, the two in-flight slots, or the hands of the application
\* (returned by acquire and not yet submitted or released):
\* |free| + |ready| + |in-flight| + |held| = N, no buffer is in two of them or
\* twice in one, and none is outside all four.
C1_PartitionOfFour ==
    \A c \in Descrs :
        pool[c] =>
            /\ Len(freeq[c]) + Len(readyq[c]) + Cardinality(Occupied(c))
                  + Cardinality(held[c]) = Cardinality(buffers[c])
            /\ Range(freeq[c]) \cup Range(readyq[c]) \cup InFlightSet(c) \cup held[c]
                  = buffers[c]

\* C1, witness: a pool of at least three buffers with one buffer free, one
\* ready and one in the hands of the application.
C1_Witness ==
    \E c \in Descrs :
        /\ pool[c] /\ Cardinality(buffers[c]) >= 3
        /\ Len(freeq[c]) > 0 /\ Len(readyq[c]) > 0 /\ held[c] # {}

\* The step is a write() on channel c that returned.
WriteOn(c) ==
    /\ last'.op = "write"
    /\ descr[last'.inst] = c
    /\ held'[c] # held[c]

\* C2: a write() called with the first in-flight slot empty, after whose
\* enqueue the ready queue holds more than two buffers, starts streaming: the
\* two oldest ready buffers move into the two slots (|ready| reduced by two),
\* the transfer is started on the first, double-buffer mode has both
\* addresses, and the trigger timer runs.
C2_StartsWhenMoreThanTwoReady ==
    [][\A c \in Descrs :
          (WriteOn(c) /\ dmabuf[c][0] = nullptr /\ Len(readyq[c]) + 1 > 2) =>
              /\ dmabuf'[c][0] = readyq[c][1]
              /\ dmabuf'[c][1] = readyq[c][2]
              /\ Len(readyq'[c]) = Len(readyq[c]) + 1 - 2
              /\ dmaEn'[c]
              /\ mar'[c][0] = dmabuf'[c][0] /\ mar'[c][1] = dmabuf'[c][1]
              /\ tim'[c]]_vars

\* C3: in-flight slots become occupied, and the transfer and the timer are
\* started, only by a write() that found the first slot empty and whose
\* enqueue brought the ready queue to at least three buffers; a write() that
\* leaves two or fewer ready buffers, or finds a transfer in flight, leaves
\* the slots, the transfer and the timer as they are.
C3_NoEarlyStart ==
    [][\A c \in Descrs :
          /\ ( \/ \E s \in Slots : dmabuf[c][s] = nullptr /\ dmabuf'[c][s] # nullptr
               \/ ~dmaEn[c] /\ dmaEn'[c]
               \/ ~tim[c] /\ tim'[c] )
             => (WriteOn(c) /\ dmabuf[c][0] = nullptr /\ Len(readyq[c]) + 1 >= 3)
          /\ (WriteOn(c) /\ (Len(readyq[c]) + 1 <= 2 \/ dmabuf[c][0] # nullptr))
             => /\ dmabuf'[c] = dmabuf[c] /\ mar'[c] = mar[c] /\ ct'[c] = ct[c]
                /\ dmaEn'[c] = dmaEn[c] /\ tim'[c] = tim[c]
                /\ Len(readyq'[c]) = Len(readyq[c]) + 1]_vars

\* C3, witness: a write() has returned leaving two buffers ready, and no
\* buffer is in flight and no transfer runs.
C3_Witness ==
    \E c \in Descrs :
        /\ last.op = "write" /\ descr[last.inst] = c
        /\ Len(readyq[c]) = 2
        /\ Occupied(c) = {} /\ ~dmaEn[c] /\ ~tim[c]

\* C4: writable() is true exactly when the free queue is non-empty, and the
\* value readable() returns is the number of buffers in the ready queue.
C4_ReadableIsCount ==
    \A c \in Descrs :
        pool[c] =>
            /\ writable(freeq[c]) <=> Len(freeq[c]) > 0
            /\ BoolToInt(readable(readyq[c])) = Len(readyq[c])

\* A pool of four buffers on channel c, none in the hands of the application,
\* a write() having just returned.
Scenario4(c) ==
    /\ pool[c] /\ buffers[c] = 1..4 /\ held[c] = {}
    /\ last.op = "write" /\ descr[last.inst] = c
\* The step is a completion callback on channel c.
CpltOn(c) == last'.op = "cplt" /\ last'.arg = c

\* C5: with n_buffers = 4, once three buffers are acquired and submitted (the
\* fourth alone is free) the transfer runs with 2 in flight and 1 ready; once
\* the fourth is submitted 2 are ready; the first completion callback then
\* leaves ready = 0 and free = 1; the second finds the ready queue empty and
\* stops the transfer, ending with free = 3, ready = 0, in-flight = 0.
C5_Scenario ==
    /\ [](\A c \in Descrs :
            (Scenario4(c) /\ freeq[c] = <<4>>) =>
                /\ dmaEn[c] /\ Cardinality(Occupied(c)) = 2 /\ Len(readyq[c]) = 1)
    /\ [](\A c \in Descrs :
            (Scenario4(c) /\ freeq[c] = <<>>) =>
                /\ dmaEn[c] /\ Cardinality(Occupied(c)) = 2 /\ Len(readyq[c]) = 2)
    /\ [][\A c \in Descrs :
            (CpltOn(c) /\ Scenario4(c) /\ freeq[c] = <<>>) =>
                /\ Len(readyq'[c]) = 0 /\ Len(freeq'[c]) = 1]_vars
    /\ [][\A c \in Descrs :
            (CpltOn(c) /\ pool[c] /\ buffers[c] = 1..4 /\ held[c] = {}
               /\ Len(readyq[c]) = 0 /\ Len(freeq[c]) = 1) =>
                /\ ~dmaEn'[c] /\ Len(freeq'[c]) = 3 /\ Len(readyq'[c]) = 0
                /\ Occupied(c)' = {}]_vars

\* C6: a completion callback that fires during streaming with the ready queue
\* empty stops the trigger timer and the transfer, returns both in-flight
\* buffers to the free queue (slot 0, then slot 1), leaves both slots empty,
\* and leaves the pool bound, with its buffers, and not deallocated.
C6_UnderrunStops ==
    [][\A c \in Descrs :
          (CpltOn(c) /\ dmaEn[c] /\ Len(readyq[c]) = 0) =>
              /\ ~tim'[c] /\ ~dmaEn'[c]
              /\ dmabuf'[c][0] = nullptr /\ dmabuf'[c][1] = nullptr
              /\ freeq'[c] = freeq[c] \o <<dmabuf[c][0], dmabuf[c][1]>>
              /\ readyq'[c] = <<>>
              /\ pool'[c] /\ buffers'[c] = buffers[c] /\ nPools' = nPools
              /\ held'[c] = held[c]
              /\ ~fault']_vars

\* C6, witness: a completion callback has just stopped a transfer: nothing is
\* ready or in flight, the pool is bound and the two buffers are free.
C6_Witness ==
    \E c \in Descrs :
        /\ last.op = "cplt" /\ last.arg = c
        /\ ~dmaEn[c] /\ ~tim[c] /\ Occupied(c) = {}
        /\ pool[c] /\ Len(freeq[c]) >= 2 /\ Len(readyq[c]) = 0

\* C7: a buffer that leaves the in-flight slots while its pool lives (recycled
\* by a completion callback, or freed on underrun or stop) is afterwards in
\* the free queue exactly once and nowhere else; no buffer is ever in the free
\* queue twice.
C7_RoundTrip ==
    [][\A c \in Descrs : \A b \in buffers[c] :
          /\ (b \in InFlightSet(c) /\ b \notin InFlightSet(c)' /\ pool'[c]) =>
                /\ Occurs(freeq'[c], b) = 1
                /\ b \notin Range(readyq'[c])
                /\ b \notin held'[c]
          /\ Occurs(freeq'[c], b) <= 1]_vars

\* C7, witness: a completion callback has just recycled a buffer, the transfer
\* still runs, and the recycled buffer is the newest of the free queue.
C7_Witness ==
    \E c \in Descrs :
        /\ last.op = "cplt" /\ last.arg = c
        /\ dmaEn[c] /\ Cardinality(Occupied(c)) = 2
        /\ Len(freeq[c]) >= 1
        /\ freeq[c][Len(freeq[c])] \notin InFlightSet(c) \cup Range(readyq[c])

\* The step is a begin() of object i that returned.
BeginOn(i) == last'.op = "begin" /\ last'.inst = i
\* The state of a channel and of its pool.
ChannelState(c) ==
    <<pool[c], buffers[c], freeq[c], readyq[c], held[c], dmabuf[c], resolution[c],
      tim[c], dmaEn[c], mar[c], ct[c]>>

\* C8: begin() returns failure when the resolution index is outside the table
\* and when the channel of its pin already has a bound pool, and then leaves
\* the channel's pool, queues, in-flight slots and resolution as they are;
\* every pool on the heap is the bound pool of a channel of its own.
C8_BeginRejects ==
    /\ [][\A i \in Instances :
            LET c == dac_descr_get(DAC_CHAN_LUT[PinChannel(i)]) IN
            (BeginOn(i) /\ (last'.arg \notin 0..2 \/ pool[c])) =>
                /\ last'.ret = 0
                /\ \A d \in Descrs : ChannelState(d)' = ChannelState(d)
                /\ nPools' = nPools]_vars
    /\ [](nPools = Cardinality({c \in Descrs : pool[c]}))

\* C8, witness: a begin() with a valid resolution has just been rejected on a
\* channel whose pool is bound and has a buffer ready.
C8_Witness ==
    \E c \in Descrs :
        /\ last.op = "begin" /\ last.ret = 0 /\ last.arg \in 0..2
        /\ descr[last.inst] = c
        /\ pool[c] /\ Len(readyq[c]) > 0

\* C9: a begin() that returned success has a pool with usable memory: its
\* pool construction put at least one buffer on the free queue.
C9_BeginFailsWithoutMemory ==
    \A i \in Instances :
        (last.op = "begin" /\ last.inst = i /\ last.ret = 1) =>
            /\ buffers[descr[i]] # {}
            /\ Len(freeq[descr[i]]) > 0

\* Object i has no bound pool.
NoBoundPool(i) == descr[i] = nullptr \/ ~pool[descr[i]]
\* The step is a call of dequeue() on object i.
DequeueCall(i) ==
    waiting = 0 /\ last'.inst = i /\ last'.op \in {"dequeue", "wfi", "fault"}
\* The step is a return of dequeue() on object i.
DequeueReturn(i) == waiting \in {0, i} /\ last'.inst = i /\ last'.op = "dequeue"

\* C10: acquire() on an object with no bound pool returns the null sentinel
\* at once; on an object with a bound pool it returns only from a state whose
\* free queue is non-empty, and returns the head of the free queue, removed
\* from it, a buffer of the pool that is neither ready nor in flight; and
\* from a state whose free queue is empty it stays suspended.
C10_Acquire ==
    [][\A i \in Instances :
          /\ (DequeueCall(i) /\ NoBoundPool(i)) =>
                /\ last'.op = "dequeue" /\ last'.ret = NULLBUF
                /\ waiting' = 0 /\ ~fault'
          /\ (DequeueReturn(i) /\ ~NoBoundPool(i)) =>
                LET c == descr[i] IN
                /\ Len(freeq[c]) > 0
                /\ last'.ret = Head(freeq[c])
                /\ freeq'[c] = Tail(freeq[c])
                /\ last'.ret \in buffers[c]
                /\ last'.ret \notin Range(readyq[c]) \cup InFlightSet(c)
          /\ (waiting = i /\ ~NoBoundPool(i) /\ Len(freeq[descr[i]]) = 0) =>
                waiting' = i]_vars

\* The step is a stop() of object i that returned.
StopOn(i) == last'.op = "stop" /\ last'.inst = i

\* C11: stop() on an object with a bound pool returns success, stops the timer
\* and the transfer, leaves both in-flight slots empty with every buffer that
\* was in flight appended to the free queue, leaves the ready queue as it was,
\* and leaves the pool bound and allocated; a stop() that follows a stop() on
\* the same channel changes nothing of the channel.
C11_Stop ==
    [][\A i \in Instances :
          (StopOn(i) /\ ~NoBoundPool(i)) =>
              LET c == descr[i] IN
              /\ last'.ret = 1
              /\ ~tim'[c] /\ ~dmaEn'[c]
              /\ dmabuf'[c] = NoSlots
              /\ Len(freeq'[c]) = Len(freeq[c]) + Cardinality(Occupied(c))
              /\ Range(freeq'[c]) = Range(freeq[c]) \cup InFlightSet(c)
              /\ readyq'[c] = readyq[c]
              /\ held'[c] = held[c]
              /\ pool'[c] /\ buffers'[c] = buffers[c] /\ nPools' = nPools
              /\ ~fault'
              /\ (last.op = "stop" /\ descr[last.inst] = c) =>
                    ChannelState(c)' = ChannelState(c)]_vars

\* C11, witness: a stop() has just ended a transfer that had buffers 1 and 2 in
\* flight and buffer 3 ready: 1 and 2 are the newest of the free queue, 3 is
\* still ready, the pool is bound.
C11_Witness ==
    \E c \in Descrs :
        /\ last.op = "stop" /\ descr[last.inst] = c
        /\ pool[c] /\ ~dmaEn[c] /\ ~tim[c] /\ Occupied(c) = {}
        /\ readyq[c] = <<3>>
        /\ Len(freeq[c]) >= 2
        /\ freeq[c][Len(freeq[c]) - 1] = 1 /\ freeq[c][Len(freeq[c])] = 2

\* The step is the destruction of object i.
DestroyOn(i) == last'.op = "destroy" /\ last'.inst = i

C13_Recycle ==
    [][\A c \in Descrs :
          (CpltOn(c) /\ dmaEn[c] /\ Len(readyq[c]) > 0) =>
              \E s \in Slots :
                  /\ s = 1 - ct'[c]
                  /\ freeq'[c] = Append(freeq[c], dmabuf[c][s])
                  /\ dmabuf'[c][s] = Head(readyq[c])
                  /\ readyq'[c] = Tail(readyq[c])
                  /\ mar'[c][s] = Head(readyq[c])
                  /\ dmabuf'[c][1 - s] = dmabuf[c][1 - s]
                  /\ mar'[c][1 - s] = mar[c][1 - s]
                  /\ dmaEn'[c] /\ tim'[c] /\ pool'[c] /\ held'[c] = held[c]]_vars

\* C13, witness: a completion callback has just put buffer 3 in the first slot
\* in the place of buffer 1, which is now the newest free buffer; buffer 2 is
\* still in the second slot, which the stream reads.
C13_Witness ==
    \E c \in Descrs :
        /\ last.op = "cplt" /\ last.arg = c /\ dmaEn[c]
        /\ dmabuf[c][0] = 3 /\ mar[c][0] = 3 /\ dmabuf[c][1] = 2 /\ ct[c] = 1
        /\ Len(freeq[c]) >= 1 /\ freeq[c][Len(freeq[c])] = 1

IsPow2(A) == \E k \in 0..30 : A = 2^k
\* size rounded up to the next multiple of A.
RoundUp(size, A) == ((size + A - 1) \div A) * A
\* The bytes of a buffer of the pool used on its own.
UBytes == upool.n_samples * upool.n_channels * sizeof_Sample
\* Both allocations of its constructor succeeded.
UAllocOk == upool.newOk /\ upool.pool # nullptr

\* C15: of a pool constructed with buffer count N.  When both allocations
\* succeeded: right after construction all N buffers are on the free queue and
\* the ready queue is empty; buffer i (from 0) is bound to the slice at offset
\* i * round_up(samples * channels * element size) of the block, the slices lie
\* in the block and no two overlap.  When an allocation failed: no buffer is
\* on either queue and writable() is false, in that and in every later state.
\* (The offsets are stated for the alignments the allocator is specified for,
\* the powers of two.)
C15_PoolConstruction ==
    upool.built =>
        IF UAllocOk
        THEN /\ ulast.op = "new" =>
                  /\ Len(upool.freeq) = upool.n_buffers
                  /\ Range(upool.freeq) = 1..upool.n_buffers
                  /\ upool.readyq = <<>>
             /\ upool.buffers = 1..upool.n_buffers
             /\ IsPow2(upool.A) =>
                  LET stride == RoundUp(UBytes, upool.A) IN
                  /\ \A b \in upool.buffers :
                        /\ upool.ptr[b] = upool.pool + (b - 1) * stride
                        /\ upool.ptr[b] + UBytes <= upool.pool + upool.n_buffers * stride
                  /\ \A b1, b2 \in upool.buffers :
                        b1 < b2 => upool.ptr[b1] + UBytes <= upool.ptr[b2]
        ELSE /\ upool.buffers = {}
             /\ upool.freeq = <<>> /\ upool.readyq = <<>>
             /\ ~writable(upool.freeq)

\* C15, witness: a pool of at least two buffers of 17 samples has just been
\* constructed with the cache line alignment: its buffers are on the free
\* queue, and the second is bound 64 bytes (34 rounded up) after the first.
C15_Witness ==
    /\ upool.built /\ UAllocOk /\ ulast.op = "new"
    /\ upool.A = SCB_DCACHE_LINE_SIZE /\ upool.n_samples = 17 /\ upool.n_channels = 1
    /\ upool.n_buffers >= 2 /\ Len(upool.freeq) = upool.n_buffers
    /\ upool.ptr[2] = upool.ptr[1] + 64

\* C16: every buffer on the free queue has all its flags clear, a release()
\* leaves the released buffer on the free queue with all flags clear whatever
\* they were, and the buffer allocate() returns has all flags clear.
C16_FlagsClearedOnRelease ==
    upool.built =>
        /\ \A b \in Range(upool.freeq) : upool.flags[b] = {}
        /\ ulast.op = "release" =>
              /\ upool.flags[ulast.buf] = {}
              /\ upool.freeq[Len(upool.freeq)] = ulast.buf
        /\ (ulast.op = "allocate" /\ ulast.ret # nullptr) =>
              upool.flags[ulast.ret] = {}

\* C16, witness: a buffer that had both flags set has just been released: it
\* is the newest buffer of the free queue and its flags are clear.
C16_Witness ==
    /\ upool.built /\ ulast.op = "release"
    /\ ulast.was = DMA_BUFFER_DISCONT \cup DMA_BUFFER_INTRLVD
    /\ upool.flags[ulast.buf] = {}
    /\ upool.freeq[Len(upool.freeq)] = ulast.buf

\* C17: AlignedAlloc<A>::malloc returns nullptr for every A that is not a power
\* of two and whenever ::malloc fails; for every power of two A with a
\* successful ::malloc it returns an address that is not null and is a
\* multiple of A.  (upool.pool is what the constructor's call of it returned.)
C17_AlignedMalloc ==
    upool.built =>
        /\ (~IsPow2(upool.A) \/ upool.stashed = nullptr) => upool.pool = nullptr
        /\ (IsPow2(upool.A) /\ upool.stashed # nullptr) =>
              upool.pool # nullptr /\ upool.pool % upool.A = 0

\* C18: on an object whose pool has at least three buffers, an acquire() that
\* is suspended in its loop eventually returns: the producer is never
\* suspended forever with all buffers ready or in flight.
C18_AcquireReturns ==
    \A i \in Instances :
        (waiting = i /\ ~NoBoundPool(i) /\ Cardinality(buffers[descr[i]]) >= 3)
            ~> (waiting # i)

\* C19: in every state the two in-flight slots of a channel are both empty, and
\* then no transfer runs, or both occupied, by two different buffers, and then
\* the transfer runs; never is one slot alone occupied or one buffer in both:
\* the first slot alone tells whether a transfer is in flight.
C19_SlotsBothOrNone ==
    \A c \in Descrs :
        /\ \/ Occupied(c) = {}
           \/ Occupied(c) = Slots /\ dmabuf[c][0] # dmabuf[c][1]
        /\ dmabuf[c][0] # nullptr <=> Occupied(c) = Slots
        /\ dmabuf[c][0] # nullptr <=> dmaEn[c]

\* C19, witness: two buffers are in flight, neither of them one of the first
\* two that were, and a write() has just added a second buffer to the ready
\* queue while the transfer runs.
C19_Witness ==
    \E c \in Descrs :
        /\ last.op = "write" /\ descr[last.inst] = c
        /\ Occupied(c) = Slots /\ dmaEn[c] /\ Len(readyq[c]) >= 2
        /\ InFlightSet(c) \cap {1, 2} = {}

\* The last step was a begin() of object i, which had no channel, that was
\* rejected because the channel of its pin has a bound pool: the pool of
\* another object.
Rejected(i) ==
    /\ last.op = "begin" /\ last.inst = i /\ last.ret = 0
    /\ last.arg < Len(DAC_RES_LUT) /\ last.was = nullptr

\* C20: an object whose begin() was rejected because another object has bound
\* the channel does not affect the channel: its available() is false, its
\* acquire() returns the null sentinel at once, and its stop() and its
\* teardown leave the pool, the queues, the in-flight slots and the transfer
\* of the other object as they are.
C20_RejectedIsHarmless ==
    /\ [](\A i \in Instances : Rejected(i) => ~available(i))
    /\ [][\A i \in Instances :
            (Rejected(i) /\ last'.inst = i) =>
                /\ last'.op \in {"dequeue", "wfi", "fault"} =>
                      last'.op = "dequeue" /\ last'.ret = NULLBUF
                /\ last'.op \in {"dequeue", "wfi", "fault", "stop", "destroy"} =>
                      /\ \A d \in Descrs : ChannelState(d)' = ChannelState(d)
                      /\ nPools' = nPools /\ ~fault']_vars
====
